---------------------------- MODULE Spec2Model ----------------------------
(***************************************************************************)
(* Model of main.cpp: a virtual CPU with fixed-width 32-bit instructions,  *)
(* a disassembler (decodeInstruction / printAsm) and an execution engine   *)
(* (executeInstruction / execute) over 16 unsigned 32-bit registers.       *)
(*                                                                         *)
(* TLC's integers are 32-bit signed, so a uint32_t is kept as two 16-bit   *)
(* halves <<hi, lo>> (value hi * 2^16 + lo) and all uint32_t arithmetic is *)
(* carried out on the halves, modulo 2^32.                                 *)
(***************************************************************************)
EXTENDS Integers, Sequences, FiniteSets, TLC

(***************************************************************************)
(* uint32_t values and the operators of C++ unsigned arithmetic on them.   *)
(***************************************************************************)

\* uint32_t: every pair of 16-bit halves.
IsU32(w) == /\ w[1] \in 0..65535
            /\ w[2] \in 0..65535

\* A small non-negative int converted to uint32_t.
U32(n) == <<n \div 65536, n % 65536>>

\* Carries the overflow of the low half into the high half; the high half is
\* left unreduced.
Carry(hi, lo) == <<hi + (lo \div 65536), lo % 65536>>

\* uint32_t + uint32_t (wraps modulo 2^32).
Add32(a, b) ==
    LET s == Carry(a[1] + b[1], a[2] + b[2])
    IN  <<s[1] % 65536, s[2]>>

\* uint32_t - uint32_t (wraps modulo 2^32).
Sub32(a, b) ==
    LET borrow == IF a[2] < b[2] THEN 1 ELSE 0
    IN  <<(a[1] - b[1] - borrow + 65536) % 65536,
          (a[2] - b[2] + 65536) % 65536>>

\* 16-bit times 16-bit as an exact 32-bit value; the factor y is split into
\* bytes so that no intermediate product leaves TLC's integer range.
Mul16(x, y) ==
    LET p0  == x * (y % 256)
        p1  == x * (y \div 256)
        low == p0 + (p1 % 256) * 256
    IN  <<(low \div 65536) + (p1 \div 256), low % 65536>>

\* uint32_t * uint32_t (wraps modulo 2^32).
Mul32(a, b) ==
    LET ll    == Mul16(a[2], b[2])
        cross == Mul16(a[1], b[2])[2] + Mul16(a[2], b[1])[2]
    IN  <<(ll[1] + cross) % 65536, ll[2]>>

\* a >= b on (possibly unreduced) halves.
Geq32(a, b) == \/ a[1] > b[1]
               \/ (a[1] = b[1] /\ a[2] >= b[2])

\* 2^k for k in 0..16.
Pow2(k) ==
    <<1, 2, 4, 8, 16, 32, 64, 128, 256, 512, 1024, 2048, 4096, 8192, 16384,
      32768, 65536>>[k + 1]

\* Bit k (0..31) of a uint32_t.
Bit32(w, k) == IF k >= 16 THEN (w[1] \div Pow2(k - 16)) % 2
                          ELSE (w[2] \div Pow2(k)) % 2

\* One step of restoring long division at bit k; qr is <<quotient, remainder>>.
DivStep(n, d, k, qr) ==
    LET r2  == Carry(2 * qr[2][1], 2 * qr[2][2] + Bit32(n, k))
        fit == Geq32(r2, d)
        r3  == IF fit
               THEN <<r2[1] - d[1] - (IF r2[2] < d[2] THEN 1 ELSE 0),
                      (r2[2] - d[2] + 65536) % 65536>>
               ELSE r2
        q2  == Carry(2 * qr[1][1], 2 * qr[1][2] + (IF fit THEN 1 ELSE 0))
    IN  <<q2, r3>>

\* Restoring long division, bit k down to bit 0, from <<quotient, remainder>>.
DivLoop(n, d) ==
    LET loop[k \in -1..31, qr \in (Nat \X Nat) \X (Nat \X Nat)] ==
            IF k < 0 THEN qr ELSE loop[k - 1, DivStep(n, d, k, qr)]
    IN  loop[31, <<(<<0, 0>>), (<<0, 0>>)>>]

\* uint32_t / uint32_t for a nonzero divisor (truncating).
Div32(a, b) == DivLoop(a, b)[1]

\* Bitwise AND of two 4-bit values, bit by bit.
And4 ==
    [x \in 0..15 |-> [y \in 0..15 |->
        (IF x % 2 = 1 /\ y % 2 = 1 THEN 1 ELSE 0)
        + (IF (x \div 2) % 2 = 1 /\ (y \div 2) % 2 = 1 THEN 2 ELSE 0)
        + (IF (x \div 4) % 2 = 1 /\ (y \div 4) % 2 = 1 THEN 4 ELSE 0)
        + (IF x \div 8 = 1 /\ y \div 8 = 1 THEN 8 ELSE 0)]]

\* Bitwise AND of two 16-bit halves, four bits at a time.
And16(x, y) ==
    And4[x % 16][y % 16]
    + 16 * And4[(x \div 16) % 16][(y \div 16) % 16]
    + 256 * And4[(x \div 256) % 16][(y \div 256) % 16]
    + 4096 * And4[x \div 4096][y \div 4096]

\* uint32_t & uint32_t.
And32(a, b) == <<And16(a[1], b[1]), And16(a[2], b[2])>>

\* uint32_t >> s for 0 <= s < 32.
Shr32(w, s) ==
    IF s >= 16 THEN <<0, w[1] \div Pow2(s - 16)>>
    ELSE <<w[1] \div Pow2(s),
           (w[1] % Pow2(s)) * Pow2(16 - s) + (w[2] \div Pow2(s))>>

\* uint32_t << 16 (the bits shifted past bit 31 are lost).
Shl16(w) == <<w[2], 0>>

\* Conversions to the narrower unsigned types of the locals.
ToU8(w)  == w[2] % 256
ToU16(w) == w[2]

(***************************************************************************)
(* printf's %d.                                                            *)
(***************************************************************************)

DigitChar(d) ==
    CASE d = 0 -> "0" [] d = 1 -> "1" [] d = 2 -> "2" [] d = 3 -> "3"
      [] d = 4 -> "4" [] d = 5 -> "5" [] d = 6 -> "6" [] d = 7 -> "7"
      [] d = 8 -> "8" [] d = 9 -> "9"

\* Quotient and remainder of a 32-bit magnitude by ten.
DivMod10(w) ==
    LET t == (w[1] % 10) * 65536 + w[2]
    IN  <<(<<w[1] \div 10, t \div 10>>), t % 10>>

\* The decimal digits of a 32-bit magnitude, most significant first.
DecDigits[w \in Nat \X Nat] ==
    IF w[1] = 0 /\ w[2] < 10 THEN DigitChar(w[2])
    ELSE LET qr == DivMod10(w)
         IN  DecDigits[qr[1]] \o DigitChar(qr[2])

\* printf("%d", x) for a 32-bit argument x: the argument is read as a signed
\* int, so a bit pattern with bit 31 set is printed as the negative number
\* pattern - 2^32.  The uint8_t and uint16_t locals are promoted to int and
\* are non-negative.
PrintfD(w) ==
    IF w[1] >= 32768 THEN "-" \o DecDigits[Sub32(<<0, 0>>, w)]
    ELSE DecDigits[w]

(***************************************************************************)
(* The instruction format (lines 29-37) and the locals both functions      *)
(* compute from an instruction word.                                       *)
(***************************************************************************)

OPCODE_MASK == <<65280, 0>>     \* 0xFF000000
R1_MASK     == <<240, 0>>       \* 0x00F00000
R2_MASK     == <<15, 0>>        \* 0x000F0000
R3IMM_MASK  == <<0, 65535>>     \* 0x0000FFFF

\* Mutant of GET_R1: the field shifted as if it were r2.
GET_R1_ShiftedAsR2(instr) == Shr32(And32(instr, R1_MASK), 16)

GET_OPCODE(instr) == Shr32(And32(instr, OPCODE_MASK), 24)
GET_R1(instr)     == Shr32(And32(instr, R1_MASK), 20)
GET_R2(instr)     == Shr32(And32(instr, R2_MASK), 16)
GET_R3IMM(instr)  == And32(instr, R3IMM_MASK)

\* The types of the locals: uint8_t opcode, r1, r2; uint16_t r3_imm.
Locals == [opcode : 0..255, r1 : 0..255, r2 : 0..255, r3_imm : 0..65535]

\* uint8_t opcode, r1, r2; uint16_t r3_imm of decodeInstruction.
DecodeLocals(instr) ==
    [opcode |-> ToU8(GET_OPCODE(instr)),
     r1     |-> ToU8(GET_R1(instr)),
     r2     |-> ToU8(GET_R2(instr)),
     r3_imm |-> ToU16(GET_R3IMM(instr))]

\* uint8_t opcode, r1, r2; uint16_t r3_imm of executeInstruction.
ExecuteLocals(instr) ==
    [opcode |-> ToU8(GET_OPCODE(instr)),
     r1     |-> ToU8(GET_R1(instr)),
     r2     |-> ToU8(GET_R2(instr)),
     r3_imm |-> ToU16(GET_R3IMM(instr))]

(***************************************************************************)
(* decodeInstruction: the line printed for one instruction word.           *)
(***************************************************************************)

\* The printf formats of the switch, by operand shape.
AsmR(mn, r1)           == mn \o " R" \o PrintfD(U32(r1))
AsmRR(mn, r1, r2)      == AsmR(mn, r1) \o ", R" \o PrintfD(U32(r2))
AsmRI(mn, r1, imm)     == AsmR(mn, r1) \o ", " \o PrintfD(U32(imm))
\* Mutant of AsmRRR: the third register shown as a 4-bit index.
AsmRRR_LowNibble(mn, r1, r2, r3) ==
    AsmRR(mn, r1, r2) \o ", R" \o PrintfD(U32(r3 % 16))

AsmRRR(mn, r1, r2, r3) == AsmRR(mn, r1, r2) \o ", R" \o PrintfD(U32(r3))
AsmRRI(mn, r1, r2, imm) == AsmRR(mn, r1, r2) \o ", " \o PrintfD(U32(imm))

\* The locals are computed once, on entry, and the switch runs on their values.
decodeInstruction(instr) ==
    LET switch[l \in Locals] ==
            CASE l.opcode = 83  -> AsmR("WRITE", l.r1)                      \* 0x53
              [] l.opcode = 84  -> AsmRR("MOV", l.r1, l.r2)                 \* 0x54
              [] l.opcode = 85  -> AsmRI("MOVli", l.r1, l.r3_imm)           \* 0x55
              [] l.opcode = 86  -> AsmRI("MOVhi", l.r1, l.r3_imm)           \* 0x56
              [] l.opcode = 87  -> AsmRRR("ADD", l.r1, l.r2, l.r3_imm)      \* 0x57
              [] l.opcode = 88  -> AsmRRI("ADDi", l.r1, l.r2, l.r3_imm)     \* 0x58
              [] l.opcode = 89  -> AsmRRR("SUB", l.r1, l.r2, l.r3_imm)      \* 0x59
              [] l.opcode = 96  -> AsmRRI("SUBi", l.r1, l.r2, l.r3_imm)     \* 0x60
              [] l.opcode = 97  -> AsmRRR("MUL", l.r1, l.r2, l.r3_imm)      \* 0x61
              [] l.opcode = 98  -> AsmRRI("MULi", l.r1, l.r2, l.r3_imm)     \* 0x62
              [] l.opcode = 99  -> AsmRRR("DIV", l.r1, l.r2, l.r3_imm)      \* 0x63
              [] l.opcode = 100 -> AsmRRI("DIVi", l.r1, l.r2, l.r3_imm)     \* 0x64
              [] OTHER          -> "UNKNOWN INSTRUCTION"
    IN  switch[DecodeLocals(instr)]

(***************************************************************************)
(* executeInstruction.  An outcome is what one call can do: the register   *)
(* file it leaves, the lines it prints, whether the process survives, and  *)
(* which undefined operation (if any) it performed.  A call whose          *)
(* behaviour C++ leaves undefined has several outcomes.                    *)
(***************************************************************************)

\* uint32_t registers[16]
RegIdx == 0..15

\* What an undefined read or an undefined division can leave in a register
\* when the process is not killed.
Garbage == {<<0, 0>>, <<65535, 65535>>}

Ok(regs, lines) ==
    [status |-> "ok", regs |-> regs, out |-> lines, ub |-> "none"]

\* registers[r1] = v
Store(regs, r1, v) == Ok([regs EXCEPT ![r1] = v], <<>>)

\* The process is killed by a signal (SIGFPE, SIGSEGV) raised in the call.
Killed(regs, ub) ==
    [status |-> "killed", regs |-> regs, out |-> <<>>, ub |-> ub]

\* The outcome o of a call whose first undefined operation is ub.
Undefined(o, ub) == [o EXCEPT !.ub = ub]

\* registers[r3_imm] read as an operand: inside the array its element;
\* outside it (r3_imm >= 16) whatever the stack holds there.
Operand(regs, r3_imm) == IF r3_imm \in RegIdx THEN {regs[r3_imm]} ELSE Garbage

\* case 0x53: printf("%d\n", registers[r1]);
ExecWRITE(regs, r1) == {Ok(regs, <<PrintfD(regs[r1])>>)}

\* case 0x54: registers[r1] = registers[r2];
ExecMOV(regs, r1, r2) == {Store(regs, r1, regs[r2])}

\* Mutant of ExecMOVli: the loaded value is also printed.
ExecMOVli_Echo(regs, r1, r3_imm) ==
    {Ok([regs EXCEPT ![r1] = U32(r3_imm)], <<PrintfD(U32(r3_imm))>>)}

\* case 0x55: registers[r1] = r3_imm;
ExecMOVli(regs, r1, r3_imm) == {Store(regs, r1, U32(r3_imm))}

\* case 0x56: registers[r1] = r3_imm << 16;  (r3_imm is promoted to int; for
\* r3_imm >= 0x8000 the shifted value fits the unsigned type, which C++ defines,
\* and its conversion to uint32_t is r3_imm * 2^16)
ExecMOVhi(regs, r1, r3_imm) == {Store(regs, r1, Shl16(U32(r3_imm)))}

\* The out-of-bounds read of a three-register case may also kill the process.
OutOfBounds(regs, r3_imm, outcomes) ==
    IF r3_imm \in RegIdx THEN outcomes
    ELSE {Undefined(o, "IndexOutOfRange") : o \in outcomes}
         \cup {Killed(regs, "IndexOutOfRange")}

\* case 0x57: registers[r1] = registers[r2] + registers[r3_imm];
ExecADD(regs, r1, r2, r3_imm) ==
    OutOfBounds(regs, r3_imm,
        {Store(regs, r1, Add32(regs[r2], v)) : v \in Operand(regs, r3_imm)})

\* case 0x58: registers[r1] = registers[r2] + r3_imm;
ExecADDi(regs, r1, r2, r3_imm) ==
    {Store(regs, r1, Add32(regs[r2], U32(r3_imm)))}

\* Mutant of ExecSUB: the operands of the subtraction exchanged.
ExecSUB_Exchanged(regs, r1, r2, r3_imm) ==
    OutOfBounds(regs, r3_imm,
        {Store(regs, r1, Sub32(v, regs[r2])) : v \in Operand(regs, r3_imm)})

\* case 0x59: registers[r1] = registers[r2] - registers[r3_imm];
ExecSUB(regs, r1, r2, r3_imm) ==
    OutOfBounds(regs, r3_imm,
        {Store(regs, r1, Sub32(regs[r2], v)) : v \in Operand(regs, r3_imm)})

\* Mutant of ExecSUBi: the difference stops at zero instead of wrapping.
ExecSUBi_Saturating(regs, r1, r2, r3_imm) ==
    {Store(regs, r1, IF Geq32(regs[r2], U32(r3_imm))
                     THEN Sub32(regs[r2], U32(r3_imm))
                     ELSE <<0, 0>>)}

\* case 0x60: registers[r1] = registers[r2] - r3_imm;
ExecSUBi(regs, r1, r2, r3_imm) ==
    {Store(regs, r1, Sub32(regs[r2], U32(r3_imm)))}

\* case 0x61: registers[r1] = registers[r2] * registers[r3_imm];
ExecMUL(regs, r1, r2, r3_imm) ==
    OutOfBounds(regs, r3_imm,
        {Store(regs, r1, Mul32(regs[r2], v)) : v \in Operand(regs, r3_imm)})

\* case 0x62: registers[r1] = registers[r2] * r3_imm;
ExecMULi(regs, r1, r2, r3_imm) ==
    {Store(regs, r1, Mul32(regs[r2], U32(r3_imm)))}

\* registers[r1] = a / b on uint32_t.  Division by zero is undefined: the
\* process is killed, or the division leaves some value in registers[r1].
Divide(regs, r1, a, b) ==
    IF b = <<0, 0>>
    THEN {Undefined(Store(regs, r1, g), "DivisionByZero") : g \in Garbage}
         \cup {Killed(regs, "DivisionByZero")}
    ELSE {Store(regs, r1, Div32(a, b))}

\* case 0x63: registers[r1] = registers[r2] / registers[r3_imm];
ExecDIV(regs, r1, r2, r3_imm) ==
    OutOfBounds(regs, r3_imm,
        UNION {Divide(regs, r1, regs[r2], v) : v \in Operand(regs, r3_imm)})

\* case 0x64: registers[r1] = registers[r2] / r3_imm;
ExecDIVi(regs, r1, r2, r3_imm) == Divide(regs, r1, regs[r2], U32(r3_imm))

\* Mutant of ExecDefault: an unknown opcode is skipped silently.
ExecDefault_Silent(regs) == {Ok(regs, <<>>)}

\* default: printf("UNKNOWN INSTRUCTION\n");
ExecDefault(regs) == {Ok(regs, <<"UNKNOWN INSTRUCTION">>)}

\* The locals are computed once, on entry, and the switch runs on their values.
executeInstruction(instr, regs) ==
    LET switch[l \in Locals] ==
            CASE l.opcode = 83  -> ExecWRITE(regs, l.r1)                    \* 0x53
              [] l.opcode = 84  -> ExecMOV(regs, l.r1, l.r2)                \* 0x54
              [] l.opcode = 85  -> ExecMOVli(regs, l.r1, l.r3_imm)          \* 0x55
              [] l.opcode = 86  -> ExecMOVhi(regs, l.r1, l.r3_imm)          \* 0x56
              [] l.opcode = 87  -> ExecADD(regs, l.r1, l.r2, l.r3_imm)      \* 0x57
              [] l.opcode = 88  -> ExecADDi(regs, l.r1, l.r2, l.r3_imm)     \* 0x58
              [] l.opcode = 89  -> ExecSUB(regs, l.r1, l.r2, l.r3_imm)      \* 0x59
              [] l.opcode = 96  -> ExecSUBi(regs, l.r1, l.r2, l.r3_imm)     \* 0x60
              [] l.opcode = 97  -> ExecMUL(regs, l.r1, l.r2, l.r3_imm)      \* 0x61
              [] l.opcode = 98  -> ExecMULi(regs, l.r1, l.r2, l.r3_imm)     \* 0x62
              [] l.opcode = 99  -> ExecDIV(regs, l.r1, l.r2, l.r3_imm)      \* 0x63
              [] l.opcode = 100 -> ExecDIVi(regs, l.r1, l.r2, l.r3_imm)     \* 0x64
              [] OTHER          -> ExecDefault(regs)
    IN  switch[ExecuteLocals(instr)]

\* The indices at which executeInstruction subscripts registers[].
RegisterIndices(instr) ==
    LET l == ExecuteLocals(instr)
    IN  CASE l.opcode \in {83, 85, 86}     -> {l.r1}
          [] l.opcode \in {84, 88, 96, 98, 100} -> {l.r1, l.r2}
          [] l.opcode \in {87, 89, 97, 99} -> {l.r1, l.r2, l.r3_imm}
          [] OTHER                         -> {}

(***************************************************************************)
(* The program state.                                                      *)
(***************************************************************************)

VARIABLES
    bin,        \* the caller's array of instruction words (binSize = Len(bin))
    first,      \* the pass the caller runs first: "printAsm" or "execute"
    finished,   \* the passes that have returned
    pc,         \* "main", "printAsm", "execute", "done" or "killed"
    i,          \* the loop counter of the running pass
    registers,  \* uint32_t registers[16] of execute
    asmOut,     \* the lines printed by printAsm and decodeInstruction
    execOut,    \* the lines printed by execute and executeInstruction
    applied,    \* the indices of bin passed to executeInstruction, in order
    fault       \* the undefined operations performed so far: <<kind, index>>

vars == <<bin, first, finished, pc, i, registers, asmOut, execOut, applied,
          fault>>

\* An instruction word from its fields.
Instr(opcode, r1, r2, r3_imm) == <<opcode * 256 + r1 * 16 + r2, r3_imm>>

\* BIN of main.
BIN ==
    << <<22016, 1>>,  <<21248, 0>>, <<25616, 256>>, <<21264, 0>>,
       <<22561, 16>>, <<21280, 0>>, <<24625, 16>>,  <<21296, 0>>,
       <<22322, 3>>,  <<21296, 0>>, <<22819, 2>>,   <<21280, 0>>,
       <<22835, 2>>,  <<21296, 0>>, <<22290, 3>>,   <<21264, 0>>,
       <<25105, 16>>, <<21264, 0>>, <<25344, 1>>,   <<21248, 0>> >>

\* uint32_t registers[16] = {0};
ZeroRegisters == [r \in RegIdx |-> <<0, 0>>]

\* The pass main enters next.
NextPass ==
    IF first \notin finished THEN first
    ELSE IF first = "printAsm" THEN "execute" ELSE "printAsm"

\* printAsm: printf("INSTRUCTIONS:\n"); int i = 0;
PrintAsmBegin ==
    /\ pc = "main"
    /\ finished # {"printAsm", "execute"}
    /\ NextPass = "printAsm"
    /\ asmOut' = <<"INSTRUCTIONS:">>
    /\ i' = 0
    /\ pc' = "printAsm"
    /\ UNCHANGED <<bin, first, finished, registers, execOut, applied, fault>>

\* printAsm: one iteration of the loop, decodeInstruction(bin[i]); ++i
PrintAsmStep ==
    /\ pc = "printAsm"
    /\ i < Len(bin)
    /\ asmOut' = Append(asmOut, decodeInstruction(bin[i + 1]))
    /\ i' = i + 1
    /\ UNCHANGED <<bin, first, finished, pc, registers, execOut, applied,
                   fault>>

\* printAsm: the loop ends, printf("\n"); return
PrintAsmEnd ==
    /\ pc = "printAsm"
    /\ ~(i < Len(bin))
    /\ asmOut' = Append(asmOut, "")
    /\ finished' = finished \cup {"printAsm"}
    /\ pc' = "main"
    /\ UNCHANGED <<bin, first, i, registers, execOut, applied, fault>>

\* execute: printf("EXECUTION:\n"); uint32_t registers[16] = {0}; int i = 0;
ExecuteBegin ==
    /\ pc = "main"
    /\ finished # {"printAsm", "execute"}
    /\ NextPass = "execute"
    /\ execOut' = <<"EXECUTION:">>
    /\ registers' = ZeroRegisters
    /\ i' = 0
    /\ pc' = "execute"
    /\ UNCHANGED <<bin, first, finished, asmOut, applied, fault>>

\* execute: one iteration of the loop, executeInstruction(bin[i], registers);
\* ++i.  A killed process runs nothing more.
ExecuteStep ==
    /\ pc = "execute"
    /\ i < Len(bin)
    /\ \E o \in executeInstruction(bin[i + 1], registers) :
          /\ registers' = o.regs
          /\ execOut' = execOut \o o.out
          /\ applied' = Append(applied, i + 1)
          /\ fault' = IF o.ub = "none" THEN fault
                      ELSE Append(fault, <<o.ub, i + 1>>)
          /\ IF o.status = "killed"
             THEN pc' = "killed" /\ i' = i
             ELSE pc' = pc /\ i' = i + 1
    /\ UNCHANGED <<bin, first, finished, asmOut>>

\* execute: the loop ends, printf("\n"); return
ExecuteEnd ==
    /\ pc = "execute"
    /\ ~(i < Len(bin))
    /\ execOut' = Append(execOut, "")
    /\ finished' = finished \cup {"execute"}
    /\ pc' = "main"
    /\ UNCHANGED <<bin, first, i, registers, asmOut, applied, fault>>

\* main: return 0;
MainReturn ==
    /\ pc = "main"
    /\ finished = {"printAsm", "execute"}
    /\ pc' = "done"
    /\ UNCHANGED <<bin, first, finished, i, registers, asmOut, execOut,
                   applied, fault>>

Next ==
    \/ PrintAsmBegin
    \/ PrintAsmStep
    \/ PrintAsmEnd
    \/ ExecuteBegin
    \/ ExecuteStep
    \/ ExecuteEnd
    \/ MainReturn

(***************************************************************************)
(* Whole runs: main over a caller-supplied program.                        *)
(***************************************************************************)

\* The longest generated program.
MaxLen == 2

\* The instruction words the generated programs are made of.
Words ==
    { Instr(83, 0, 0, 0),       \* WRITE R0
      Instr(83, 1, 0, 0),       \* WRITE R1
      Instr(84, 1, 0, 0),       \* MOV R1, R0
      Instr(85, 0, 0, 65535),   \* MOVli R0, 65535
      Instr(86, 0, 0, 1),       \* MOVhi R0, 1
      Instr(86, 1, 0, 32768),   \* MOVhi R1, 32768
      Instr(87, 0, 0, 1),       \* ADD R0, R0, R1
      Instr(87, 0, 0, 16),      \* ADD R0, R0, R16
      Instr(88, 0, 0, 1),       \* ADDi R0, R0, 1
      Instr(89, 1, 0, 1),       \* SUB R1, R0, R1
      Instr(96, 0, 0, 1),       \* SUBi R0, R0, 1
      Instr(97, 0, 0, 0),       \* MUL R0, R0, R0
      Instr(98, 0, 0, 65535),   \* MULi R0, R0, 65535
      Instr(99, 0, 0, 1),       \* DIV R0, R0, R1
      Instr(99, 1, 1, 0),       \* DIV R1, R1, R0
      Instr(100, 1, 0, 256),    \* DIVi R1, R0, 256
      Instr(100, 1, 0, 0),      \* DIVi R1, R0, 0
      Instr(0, 0, 0, 0),        \* opcode 0x00
      Instr(82, 0, 0, 1),       \* opcode 0x52
      Instr(101, 1, 0, 0),      \* opcode 0x65
      Instr(90, 1, 2, 3),       \* opcode 0x5A
      Instr(255, 15, 15, 65535) \* opcode 0xFF
    }

RECURSIVE SeqsOf(_, _)
SeqsOf(S, n) ==
    IF n = 0 THEN {<<>>}
    ELSE LET shorter == SeqsOf(S, n - 1)
         IN  shorter \cup {Append(p, w) : p \in {q \in shorter : Len(q) = n - 1},
                                          w \in S}

\* The programs a run is started on: BIN of main, its first four words, and
\* every program of at most MaxLen words from Words.
Programs == {BIN, SubSeq(BIN, 1, 4)} \cup SeqsOf(Words, MaxLen)

Init ==
    /\ bin \in Programs
    /\ first \in {"printAsm", "execute"}
    /\ finished = {}
    /\ pc = "main"
    /\ i = 0
    /\ registers = ZeroRegisters
    /\ asmOut = <<>>
    /\ execOut = <<>>
    /\ applied = <<>>
    /\ fault = <<>>

Spec == Init /\ [][Next]_vars

\* Every step of main, printAsm and execute is taken: the program is one
\* thread that runs until it returns or is killed.
FairSpec == Spec /\ WF_vars(Next)

(***************************************************************************)
(* Single calls: decodeInstruction(instr) and executeInstruction(instr,    *)
(* registers) on one instruction word, the second on every register file   *)
(* of RegFiles.  The state is that of the pass's loop about to make the    *)
(* call.                                                                   *)
(***************************************************************************)

\* Registers 0 .. NumVaried - 1 take every value of RegValues.
NumVaried == 2

RegValues == {<<0, 0>>, <<0, 1>>, <<1, 0>>, <<32768, 0>>, <<65535, 65535>>}

\* The other registers hold values that differ from register to register.
RegFiles ==
    {[r \in RegIdx |-> IF r < NumVaried THEN f[r] ELSE <<r, 100 + r>>] :
        f \in [0..(NumVaried - 1) -> RegValues]}

\* Every opcode of the instruction set, its neighbours, the gap 0x5A-0x5F and
\* the extremes.
Opcodes == {0, 82} \cup (83..89) \cup {90, 95} \cup (96..100) \cup {101, 128, 255}

InstrWords ==
    {Instr(opcode, r1, r2, r3_imm) :
        opcode \in Opcodes, r1 \in {0, 1, 15}, r2 \in {0, 1, 15},
        r3_imm \in {0, 1, 15, 16, 256, 32768, 65535}}

InitInstr ==
    /\ bin \in {<<w>> : w \in InstrWords}
    /\ pc \in {"printAsm", "execute"}
    /\ first = pc
    /\ finished = {}
    /\ i = 0
    /\ registers \in (IF pc = "execute" THEN RegFiles ELSE {ZeroRegisters})
    /\ asmOut = IF pc = "printAsm" THEN <<"INSTRUCTIONS:">> ELSE <<>>
    /\ execOut = IF pc = "execute" THEN <<"EXECUTION:">> ELSE <<>>
    /\ applied = <<>>
    /\ fault = <<>>

NextInstr ==
    \/ PrintAsmStep
    \/ ExecuteStep

InstrSpec == InitInstr /\ [][NextInstr]_vars

(***************************************************************************)
(* The documented instruction format and instruction set, as the claims    *)
(* state them.                                                             *)
(***************************************************************************)

\* opcode = (word >> 24) & 0xFF, r1 = (word >> 20) & 0xF,
\* r2 = (word >> 16) & 0xF, r3_or_imm = word & 0xFFFF
WordFields(word) ==
    [opcode |-> (word[1] \div 256) % 256,
     r1     |-> (word[1] \div 16) % 16,
     r2     |-> word[1] % 16,
     r3_imm |-> word[2] % 65536]

ThreeRegisterOpcodes == {87, 89, 97, 99}            \* ADD SUB MUL DIV
ImmediateOpcodes == {85, 86, 88, 96, 98, 100}       \* MOVli MOVhi ADDi .. DIVi
DefinedOpcodes == {83, 84} \cup ThreeRegisterOpcodes \cup ImmediateOpcodes

\* A natural number below 2^31 in decimal.
RECURSIVE Decimal(_)
Decimal(n) ==
    IF n < 10 THEN DigitChar(n) ELSE Decimal(n \div 10) \o DigitChar(n % 10)

Mnemonic(opcode) ==
    CASE opcode = 83 -> "WRITE" [] opcode = 84 -> "MOV"
      [] opcode = 85 -> "MOVli" [] opcode = 86 -> "MOVhi"
      [] opcode = 87 -> "ADD"   [] opcode = 88 -> "ADDi"
      [] opcode = 89 -> "SUB"   [] opcode = 96 -> "SUBi"
      [] opcode = 97 -> "MUL"   [] opcode = 98 -> "MULi"
      [] opcode = 99 -> "DIV"   [] opcode = 100 -> "DIVi"

\* The line of the opcode -> mnemonic table for an instruction word.
TableLine(word) ==
    LET f == WordFields(word)
        m == Mnemonic(f.opcode)
    IN  IF f.opcode \notin DefinedOpcodes THEN "UNKNOWN INSTRUCTION"
        ELSE IF f.opcode = 83 THEN m \o " R" \o Decimal(f.r1)
        ELSE IF f.opcode = 84
             THEN m \o " R" \o Decimal(f.r1) \o ", R" \o Decimal(f.r2)
        ELSE IF f.opcode \in {85, 86}
             THEN m \o " R" \o Decimal(f.r1) \o ", " \o Decimal(f.r3_imm)
        ELSE IF f.opcode \in ThreeRegisterOpcodes
             THEN m \o " R" \o Decimal(f.r1) \o ", R" \o Decimal(f.r2)
                    \o ", R" \o Decimal(f.r3_imm)
        ELSE m \o " R" \o Decimal(f.r1) \o ", R" \o Decimal(f.r2)
               \o ", " \o Decimal(f.r3_imm)

\* The number of instructions the disassembly pass has printed a line for.
AsmLines ==
    IF pc = "printAsm" THEN i
    ELSE IF "printAsm" \in finished THEN Len(bin) ELSE 0

(***************************************************************************)
(* C1.  Decoding is total and exact: for every instruction word, both      *)
(* decodeInstruction and executeInstruction compute opcode = (word >> 24)  *)
(* & 0xFF in 0..255, r1 = (word >> 20) & 0xF in 0..15, r2 = (word >> 16)   *)
(* & 0xF in 0..15 and r3_imm = word & 0xFFFF in 0..65535; 0x56000001       *)
(* decodes to opcode 0x56, r1 0, r2 0, r3_imm 1.                           *)
(***************************************************************************)
C1_DecodeExact ==
    \A k \in 1..Len(bin) :
        LET d == DecodeLocals(bin[k])
            e == ExecuteLocals(bin[k])
        IN  /\ d = WordFields(bin[k])
            /\ e = WordFields(bin[k])
            /\ d.opcode \in 0..255 /\ e.opcode \in 0..255
            /\ d.r1 \in 0..15 /\ e.r1 \in 0..15
            /\ d.r2 \in 0..15 /\ e.r2 \in 0..15
            /\ d.r3_imm \in 0..65535 /\ e.r3_imm \in 0..65535
            /\ bin[k] = <<22016, 1>> =>
                  /\ d = [opcode |-> 86, r1 |-> 0, r2 |-> 0, r3_imm |-> 1]
                  /\ e = d

\* The word 0xFFFFFFFF (every field at its maximum) has been executed.
C1_Witness ==
    /\ pc = "execute"
    /\ i = 1
    /\ bin = << <<65535, 65535>> >>
    /\ ExecuteLocals(bin[1]) = [opcode |-> 255, r1 |-> 15, r2 |-> 15, r3_imm |-> 65535]

(***************************************************************************)
(* C2.  The disassembler prints exactly one line per instruction, equal to *)
(* the table's line for the instruction's opcode and fields (r3_imm as     *)
(* R<full 16-bit value> for ADD/SUB/MUL/DIV, as a decimal number for the   *)
(* immediate forms, UNKNOWN INSTRUCTION for every other opcode); the line  *)
(* is a function of the word alone.                                        *)
(***************************************************************************)
C2_DisassemblyTable ==
    /\ (pc = "printAsm" => Len(asmOut) = 1 + i)
    /\ AsmLines > 0 => asmOut[1] = "INSTRUCTIONS:"
    /\ \A k \in 1..AsmLines : asmOut[k + 1] = TableLine(bin[k])

\* ADD with r3_imm = 32768 has been disassembled with the full field shown.
C2_Witness ==
    /\ pc = "printAsm"
    /\ i = 1
    /\ bin = <<Instr(87, 15, 1, 32768)>>
    /\ asmOut = <<"INSTRUCTIONS:", "ADD R15, R1, R32768">>

(***************************************************************************)
(* Arithmetic modulo 2^32 as the claims state it, on 16-bit halves.        *)
(***************************************************************************)

\* x < y
Less(x, y) == x[1] < y[1] \/ (x[1] = y[1] /\ x[2] < y[2])

\* x + y, exact: the high half is not reduced.
SumExact(x, y) ==
    <<x[1] + y[1] + ((x[2] + y[2]) \div 65536), (x[2] + y[2]) % 65536>>

\* (x + y) mod 2^32
SumMod(x, y) == <<SumExact(x, y)[1] % 65536, SumExact(x, y)[2]>>

\* The exact product of two 16-bit numbers, from their bytes.
Product16(x, y) ==
    LET x1 == x \div 256  x0 == x % 256
        y1 == y \div 256  y0 == y % 256
        cross == x1 * y0 + x0 * y1
        t == (cross % 256) * 256 + x0 * y0
    IN  <<x1 * y1 + (cross \div 256) + (t \div 65536), t % 65536>>

\* The product x * y: its value mod 2^32 and whether x * y >= 2^32.
Product(x, y) ==
    LET ll  == Product16(x[2], y[2])
        lh  == Product16(x[2], y[1])
        hl  == Product16(x[1], y[2])
        mid == ll[1] + lh[2] + hl[2]
    IN  [mod  |-> <<mid % 65536, ll[2]>>,
         over |-> \/ (x[1] > 0 /\ y[1] > 0)
                  \/ lh[1] > 0
                  \/ hl[1] > 0
                  \/ mid >= 65536]

\* q = floor(a / d) for d > 0: q * d <= a < q * d + d
IsQuotient(q, a, d) ==
    /\ ~Product(q, d).over
    /\ ~Less(a, Product(q, d).mod)
    /\ Less(a, SumExact(Product(q, d).mod, d))

\* The value the instruction with fields f must leave in registers[f.r1]
\* when run on the register file regs.
IsResult(f, regs, r) ==
    LET a == regs[f.r2]
        b == IF f.opcode \in ThreeRegisterOpcodes THEN regs[f.r3_imm]
             ELSE <<0, f.r3_imm>>
    IN  /\ IsU32(r)
        /\ CASE f.opcode = 84 -> r = a
             [] f.opcode = 85 -> r = <<0, f.r3_imm>>
             [] f.opcode = 86 -> r = <<f.r3_imm, 0>>
             [] f.opcode \in {87, 88} -> r = SumMod(a, b)
             [] f.opcode \in {89, 96} -> SumMod(r, b) = a
             [] f.opcode \in {97, 98} -> r = Product(a, b).mod
             [] f.opcode \in {99, 100} -> IsQuotient(r, a, b)

\* A known non-WRITE instruction with in-range register indices and a
\* nonzero divisor is about to be executed.
ArithmeticCase ==
    /\ pc = "execute"
    /\ i < Len(bin)
    /\ LET f == WordFields(bin[i + 1])
       IN  /\ f.opcode \in DefinedOpcodes \ {83}
           /\ f.opcode \in ThreeRegisterOpcodes => f.r3_imm \in RegIdx
           /\ f.opcode = 99 => registers[f.r3_imm] # <<0, 0>>
           /\ f.opcode = 100 => f.r3_imm # 0

(***************************************************************************)
(* C3.  Executing a known non-WRITE instruction with in-range register     *)
(* indices and a nonzero divisor raises no error and leaves in             *)
(* registers[r1]: MOV registers[r2]; MOVli r3_imm zero-extended; MOVhi     *)
(* r3_imm << 16; ADD/ADDi, SUB/SUBi, MUL/MULi the sum, difference, product *)
(* modulo 2^32 of registers[r2] and the register or immediate operand;     *)
(* DIV/DIVi the unsigned quotient rounded toward zero.  The operands are   *)
(* the values held before the instruction, also when r1 is r2 or the third *)
(* register.  SUBi R0, R0, 1 from registers[0] = 0 gives 0xFFFFFFFF.       *)
(***************************************************************************)
C3_ArithmeticResults ==
    [][ArithmeticCase =>
          /\ pc' = "execute"
          /\ i' = i + 1
          /\ fault' = fault
          /\ IsResult(WordFields(bin[i + 1]), registers,
                      registers'[WordFields(bin[i + 1]).r1])
          /\ (bin[i + 1] = Instr(96, 0, 0, 1) /\ registers[0] = <<0, 0>>) =>
                registers'[0] = <<65535, 65535>>]_vars

\* SUBi R0, R0, 1 has wrapped registers[0] from 0 to 0xFFFFFFFF.
C3_Witness ==
    /\ pc = "execute"
    /\ i = 1
    /\ bin = <<Instr(96, 0, 0, 1)>>
    /\ registers[0] = <<65535, 65535>>
    /\ fault = <<>>

(***************************************************************************)
(* C4.  A DIV whose divisor register holds 0, or a DIVi whose immediate is *)
(* 0, raises a DivisionByZero condition that halts the execution pass at   *)
(* that instruction: no value is written, the process is not killed, and   *)
(* the loop does not go on to the next instruction.                        *)
(* (Stated as the claim has it; the code does not satisfy it.)             *)
(***************************************************************************)
DivisionByZeroCase ==
    /\ pc = "execute"
    /\ i < Len(bin)
    /\ LET f == WordFields(bin[i + 1])
       IN  \/ f.opcode = 100 /\ f.r3_imm = 0
           \/ f.opcode = 99 /\ f.r3_imm \in RegIdx
                            /\ registers[f.r3_imm] = <<0, 0>>

C4_DivisionByZeroHalts ==
    [][DivisionByZeroCase =>
          /\ registers' = registers
          /\ pc' # "killed"
          /\ pc' # "execute"]_vars

(***************************************************************************)
(* C5.  Every register index an executed instruction reads or writes lies  *)
(* in 0..15: an ADD, SUB, MUL or DIV whose r3_imm is 16 or more fails with *)
(* IndexOutOfRange instead of subscripting registers[] with it.            *)
(* (Stated as the claim has it; the code does not satisfy it.)             *)
(***************************************************************************)
C5_RegisterIndicesInRange ==
    \A k \in 1..Len(applied) : RegisterIndices(bin[applied[k]]) \subseteq RegIdx

(***************************************************************************)
(* Unsigned decimal notation of a 32-bit value, as the claims state it.    *)
(***************************************************************************)

\* n < 10^9 as exactly nine digits.
Decimal9(n) ==
    DigitChar((n \div 100000000) % 10) \o DigitChar((n \div 10000000) % 10)
    \o DigitChar((n \div 1000000) % 10) \o DigitChar((n \div 100000) % 10)
    \o DigitChar((n \div 10000) % 10) \o DigitChar((n \div 1000) % 10)
    \o DigitChar((n \div 100) % 10) \o DigitChar((n \div 10) % 10)
    \o DigitChar(n % 10)

\* The value w as an unsigned decimal number: below 2^31 directly, otherwise
\* its leading digit d (2, 3 or 4) followed by the nine digits of w - d * 10^9;
\* 2 * 10^9 = 30517 * 2^16 + 37888, 3 * 10^9 = 45776 * 2^16 + 24064,
\* 4 * 10^9 = 61035 * 2^16 + 10240.
UnsignedDecimal(w) ==
    IF w[1] < 32768 THEN Decimal(w[1] * 65536 + w[2])
    ELSE IF ~Less(w, <<61035, 10240>>)
         THEN "4" \o Decimal9((w[1] - 61035) * 65536 + w[2] - 10240)
    ELSE IF ~Less(w, <<45776, 24064>>)
         THEN "3" \o Decimal9((w[1] - 45776) * 65536 + w[2] - 24064)
    ELSE "2" \o Decimal9((w[1] - 30517) * 65536 + w[2] - 37888)

(***************************************************************************)
(* C6.  WRITE prints exactly one line, the value of registers[r1] as an    *)
(* unsigned 32-bit decimal number (0xFFFFFFFF as 4294967295), and changes  *)
(* no register.                                                            *)
(* (Stated as the claim has it; the code does not satisfy it.)             *)
(***************************************************************************)
C6_WritePrintsUnsigned ==
    [][(/\ pc = "execute"
        /\ i < Len(bin)
        /\ WordFields(bin[i + 1]).opcode = 83) =>
          /\ execOut' = Append(execOut,
                UnsignedDecimal(registers[WordFields(bin[i + 1]).r1]))
          /\ registers' = registers]_vars

(***************************************************************************)
(* C7.  An unknown opcode is not a failure in either pass: executing it    *)
(* prints exactly the line UNKNOWN INSTRUCTION, changes no register,       *)
(* raises no fault, and the loop goes on to the next instruction; the      *)
(* disassembly pass prints the same line for the word.                     *)
(***************************************************************************)
UnknownOpcodeCase ==
    /\ pc \in {"execute", "printAsm"}
    /\ i < Len(bin)
    /\ WordFields(bin[i + 1]).opcode \notin DefinedOpcodes

C7_UnknownOpcode ==
    [][UnknownOpcodeCase =>
          /\ pc' = pc
          /\ i' = i + 1
          /\ registers' = registers
          /\ fault' = fault
          /\ pc = "execute" =>
                execOut' = Append(execOut, "UNKNOWN INSTRUCTION")
          /\ pc = "printAsm" =>
                asmOut' = Append(asmOut, "UNKNOWN INSTRUCTION")]_vars

\* Opcode 0x5A was executed after MOVhi R0, 1, and the run went on to return.
C7_Witness ==
    /\ pc = "done"
    /\ bin = <<Instr(86, 0, 0, 1), Instr(90, 1, 2, 3)>>
    /\ execOut = <<"EXECUTION:", "UNKNOWN INSTRUCTION", "">>
    /\ asmOut = <<"INSTRUCTIONS:", "MOVhi R0, 1", "UNKNOWN INSTRUCTION", "">>
    /\ registers = [ZeroRegisters EXCEPT ![0] = <<1, 0>>]

(***************************************************************************)
(* C8.  An execution run starts from 16 zero registers and applies the     *)
(* instructions in program order; the 20-word program of main prints       *)
(* 65536, 256, 272, 240, 512, 240, 272, 512, 8192, 8 in that order, and    *)
(* its first four words print 65536 then 256.                              *)
(***************************************************************************)
C8_ReferenceProgram ==
    /\ (pc = "execute" /\ i = 0) => registers = ZeroRegisters
    /\ pc = "execute" => applied = [k \in 1..i |-> k]
    /\ (bin = BIN /\ "execute" \in finished) =>
          execOut = <<"EXECUTION:", "65536", "256", "272", "240", "512",
                      "240", "272", "512", "8192", "8", "">>
    /\ (bin = SubSeq(BIN, 1, 4) /\ "execute" \in finished) =>
          execOut = <<"EXECUTION:", "65536", "256", "">>
    /\ (bin = BIN /\ pc = "execute" /\ i >= 4) =>
          SubSeq(execOut, 1, 3) = <<"EXECUTION:", "65536", "256">>

\* The 20-word program has run to the end.
C8_Witness ==
    /\ bin = BIN
    /\ pc = "done"
    /\ Len(applied) = 20
    /\ execOut[11] = "8"
    /\ registers[0] = <<0, 8>>
    /\ registers[1] = <<0, 8192>>

(***************************************************************************)
(* C9.  For a program that raises no execution error the execution pass    *)
(* terminates, having applied each instruction exactly once in order; its  *)
(* output is the header EXECUTION:, then one line per WRITE or             *)
(* unknown-opcode instruction in program order and none for any other      *)
(* instruction, then one blank line.                                       *)
(***************************************************************************)
ProducesLine(word) ==
    \/ WordFields(word).opcode = 83
    \/ WordFields(word).opcode \notin DefinedOpcodes

ExecutionStreamShape ==
    LET producers == SelectSeq(bin, ProducesLine)
    IN  /\ Len(execOut) = Len(producers) + 2
        /\ execOut[1] = "EXECUTION:"
        /\ execOut[Len(execOut)] = ""
        /\ \A j \in 1..Len(producers) :
              /\ execOut[j + 1] # ""
              /\ (execOut[j + 1] = "UNKNOWN INSTRUCTION")
                    <=> (WordFields(producers[j]).opcode # 83)

C9_ExecutionPass ==
    /\ []( ("execute" \in finished /\ fault = <<>>) =>
              /\ applied = [k \in 1..Len(bin) |-> k]
              /\ ExecutionStreamShape )
    /\ <>("execute" \in finished \/ fault # <<>>)

\* A three-line run: WRITE, an instruction without output, an unknown opcode.
C9_Witness ==
    /\ pc = "done"
    /\ fault = <<>>
    /\ bin = <<Instr(83, 0, 0, 0), Instr(0, 0, 0, 0)>>
    /\ execOut = <<"EXECUTION:", "0", "UNKNOWN INSTRUCTION", "">>

(***************************************************************************)
(* C10.  One instruction changes at most registers[r1], the program words  *)
(* are never modified and the disassembly pass changes no register, so     *)
(* running the two passes in either order gives the same two outputs: when *)
(* the run is over, the disassembly stream is the full listing whichever   *)
(* pass ran first.                                                         *)
(* (Stated as the claim has it; the code does not satisfy it.)             *)
(***************************************************************************)
FullListing ==
    <<"INSTRUCTIONS:">> \o [k \in 1..Len(bin) |-> TableLine(bin[k])] \o <<"">>

C10_EitherOrderSameOutputs ==
    pc \in {"done", "killed"} => asmOut = FullListing

\* The part of C10 that holds of every step: an executed instruction leaves
\* every register other than r1 unchanged, no step changes the program, and
\* the disassembly pass changes no register.
C10_FrameOfOneStep ==
    [][/\ bin' = bin
       /\ pc = "printAsm" => registers' = registers
       /\ (pc = "execute" /\ i < Len(bin)) =>
             \A r \in RegIdx \ {WordFields(bin[i + 1]).r1} :
                 registers'[r] = registers[r]]_vars

=============================================================================
